---- MODULE Spec2Model ----
(***************************************************************************)
(* A model of the tile-map renderer of go-tiled (render/renderer.go):      *)
(* NewRenderer, getTileImage, RenderLayer, RenderVisibleLayers and Clear,  *)
(* acting on one Renderer (its tile cache and its canvas) for one map.     *)
(*                                                                         *)
(* Files are modelled by their names; a decoded image is the pixel grid of *)
(* the size its descriptor declares, every pixel named by its source       *)
(* <<file, x, y>>, so a crop, a flip or a draw can be followed pixel by    *)
(* pixel.  A call either returns (err = "nil" or an error value) or        *)
(* panics (err = "panic": a Go run-time panic such as a nil dereference);  *)
(* what the call changed before it stopped stays changed.                  *)
(***************************************************************************)
EXTENDS Integers, Sequences, FiniteSets, TLC

VARIABLES
    m,          \* the map the renderer was built for (Renderer.m), never changed
    r,          \* "nil" before/without construction, "renderer" once NewRenderer succeeded
    engine,     \* Renderer.engine: "nil" or the initialised orthogonal engine
    tileCache,  \* Renderer.tileCache: global tile id -> base image
    Result,     \* Renderer.Result: the canvas, pixel -> stack of composited source pixels
    ret,        \* what the last call returned and what it did (its draws, its layer calls)
    decoded,    \* source file -> number of successful image.Decode calls so far
    fetched,    \* global tile id -> number of image.Decode calls made for requests of it
    stored,     \* global tile id -> number of assignments r.tileCache[id] = ... so far
    allocated,  \* number of canvases allocated (image.NewNRGBA) so far
    calls       \* number of render/Clear calls made so far

vars == <<m, r, engine, tileCache, Result, ret, decoded, fetched, stored, allocated, calls>>

\* The number of render and Clear calls one behaviour makes.
MaxCalls == 2

----------------------------------------------------------------------------
(* Error values. *)

NoError == "nil"
ErrUnsupportedOrientation == "tiled/render: unsupported orientation"
ErrUnsupportedRenderOrder == "tiled/render: unsupported render order"
\* an error of os.Open / FileSystem.Open / image.Decode, returned unchanged
ErrIO == "open/decode error"
\* a run-time panic (nil image dereference, integer division by zero)
Panic == "panic"

----------------------------------------------------------------------------
(* image.Rectangle and the parts of package image and imaging the code uses *)

Min2(a, b) == IF a < b THEN a ELSE b
Max2(a, b) == IF a > b THEN a ELSE b

\* image.Rect: the rectangle with the given corners, put in canonical order
Rect(x0, y0, x1, y1) ==
    [Min |-> [X |-> Min2(x0, x1), Y |-> Min2(y0, y1)],
     Max |-> [X |-> Max2(x0, x1), Y |-> Max2(y0, y1)]]

Dx(rc) == rc.Max.X - rc.Min.X
Dy(rc) == rc.Max.Y - rc.Min.Y
Empty(rc) == rc.Min.X >= rc.Max.X \/ rc.Min.Y >= rc.Max.Y

\* Rectangle.Intersect: the largest rectangle in both, the zero rectangle if none
Intersect(a, b) ==
    LET c == [Min |-> [X |-> Max2(a.Min.X, b.Min.X), Y |-> Max2(a.Min.Y, b.Min.Y)],
              Max |-> [X |-> Min2(a.Max.X, b.Max.X), Y |-> Min2(a.Max.Y, b.Max.Y)]]
    IN  IF Empty(c) THEN Rect(0, 0, 0, 0) ELSE c

\* The nil image.Image.
NilImage ==
    [nil |-> TRUE, src |-> "", ox |-> 0, oy |-> 0, w |-> 0, h |-> 0,
     hf |-> FALSE, vf |-> FALSE, df |-> FALSE]

\* An image descriptor that is a nil pointer (Tileset.Image == nil).
NoImage == [Source |-> "", Width |-> 0, Height |-> 0]

\* image.Decode of an opened file: the whole picture, of the size its
\* descriptor declares, with bounds starting at (0,0).
Decode(desc) ==
    [nil |-> FALSE, src |-> desc.Source, ox |-> 0, oy |-> 0,
     w |-> desc.Width, h |-> desc.Height,
     hf |-> FALSE, vf |-> FALSE, df |-> FALSE]

\* img.Bounds(): width and height swap under a diagonal flip
Bounds(img) ==
    IF img.df THEN Rect(0, 0, img.h, img.w) ELSE Rect(0, 0, img.w, img.h)

\* imaging.Crop(img, rect): the part of rect inside img, as a new image with
\* bounds at (0,0); the empty image when rect lies outside img.
Crop(img, rect) ==
    LET q == Intersect(rect, Bounds(img))
    IN  IF Empty(q)
        THEN [img EXCEPT !.ox = 0, !.oy = 0, !.w = 0, !.h = 0]
        ELSE [img EXCEPT !.ox = img.ox + q.Min.X, !.oy = img.oy + q.Min.Y,
                         !.w = Dx(q), !.h = Dy(q)]

\* The source pixel shown at (dx,dy) of img: the diagonal flip transposes the
\* base image, then the horizontal and the vertical flip mirror it.
ImgAt(img, dx, dy) ==
    LET b  == Bounds(img)
        x1 == IF img.hf THEN Dx(b) - 1 - dx ELSE dx
        y1 == IF img.vf THEN Dy(b) - 1 - dy ELSE dy
        bx == IF img.df THEN y1 ELSE x1
        by == IF img.df THEN x1 ELSE y1
    IN  <<img.src, img.ox + bx, img.oy + by>>

\* Porter-Duff "over" of one opaque source pixel s through a mask of alpha a
\* onto the pixel stack dst: a full mask replaces what was there, an empty
\* mask leaves it, anything between blends s in on top.
Over(dst, s, a) ==
    IF a = 255 THEN << [px |-> s, a |-> 255] >>
    ELSE IF a = 0 THEN dst
    ELSE Append(dst, [px |-> s, a |-> a])

\* draw.Draw / draw.DrawMask(dst, pos, img, img.Bounds().Min, mask, .., draw.Over):
\* every pixel of pos that lies in the canvas and in the image is composited.
Draw(canvas, pos, img, a) ==
    [p \in DOMAIN canvas |->
        LET dx == p[1] - pos.Min.X
            dy == p[2] - pos.Min.Y
        IN  IF /\ dx >= 0 /\ dx < Min2(Dx(pos), Dx(Bounds(img)))
               /\ dy >= 0 /\ dy < Min2(Dy(pos), Dy(Bounds(img)))
            THEN Over(canvas[p], ImgAt(img, dx, dy), a)
            ELSE canvas[p]]

----------------------------------------------------------------------------
(* The orthogonal engine and the map's tile lookup (package tiled). *)

\* OrthogonalRendererEngine.Init: keeps the map's geometry
EngineInit(mp) == [init |-> TRUE, w |-> mp.Width, h |-> mp.Height,
                   tw |-> mp.TileWidth, th |-> mp.TileHeight]

\* GetFinalImageSize: grid width x tile width by grid height x tile height
GetFinalImageSize(e) == Rect(0, 0, e.w * e.tw, e.h * e.th)

\* GetTilePosition: the nominal cell of grid coordinate (x,y)
GetTilePosition(e, x, y) == Rect(x * e.tw, y * e.th, (x + 1) * e.tw, (y + 1) * e.th)

\* GetTrueTilePosition: the image's own size, left edge and bottom edge on
\* the nominal cell's
GetTrueTilePosition(e, tileRect, x, y) ==
    LET c == GetTilePosition(e, x, y)
    IN  Rect(c.Min.X, c.Max.Y - Dy(tileRect), c.Min.X + Dx(tileRect), c.Max.Y)

\* RotateTileImage: a new view of img with the tile's flip flags; nothing of
\* a nil image
RotateTileImage(tile, img) ==
    IF img.nil THEN img
    ELSE [img EXCEPT !.hf = tile.HorizontalFlip, !.vf = tile.VerticalFlip,
                     !.df = tile.DiagonalFlip]

\* A blank canvas: image.NewNRGBA(rect), every pixel transparent
NewNRGBA(rect) ==
    [p \in (rect.Min.X .. rect.Max.X - 1) \X (rect.Min.Y .. rect.Max.Y - 1) |-> << >>]

----------------------------------------------------------------------------
(* Go maps as functions with a finite domain. *)

\* mp[k] = v
Put(mp, k, v) == [x \in (DOMAIN mp) \cup {k} |-> IF x = k THEN v ELSE mp[x]]

\* mp[k] of a missing key is the zero value
Get(mp, k, zero) == IF k \in DOMAIN mp THEN mp[k] ELSE zero

\* mp[k] = append(mp[k], v)
AppendAt(mp, k, v) == Put(mp, k, Append(Get(mp, k, << >>), v))

\* mp[k] = append(mp[k], vs...)
ConcatAt(mp, k, vs) == Put(mp, k, Get(mp, k, << >>) \o vs)

----------------------------------------------------------------------------
(* Renderer.getTileImage.  c is the renderer's cache with the counters of   *)
(* the decodes and cache assignments made: [tileCache, decoded, fetched,    *)
(* stored].                                                                 *)
(* bad is the set of files that cannot be opened or decoded during the call.*)

\* sf, err := Open(..); img, _, err = image.Decode(sf) succeeded for desc,
\* while the image of global tile id gid was asked for
CountDecode(c, desc, gid) ==
    [c EXCEPT !.decoded = Put(@, desc.Source, Get(@, desc.Source, 0) + 1),
              !.fetched = Put(@, gid, Get(@, gid, 0) + 1)]

\* r.tileCache[gid] = img
Store(c, gid, img) ==
    [c EXCEPT !.tileCache = Put(@, gid, img),
              !.stored = Put(@, gid, Get(@, gid, 0) + 1)]

\* lines 110-123: the tileset has no atlas image; every tile definition whose
\* ID is the requested one is opened, decoded and stored under the requested id
RECURSIVE LoadTileImages(_, _, _, _, _)
LoadTileImages(c, tile, i, timg, bad) ==
    LET ts == m.Tilesets[tile.Tileset]
    IN  IF i > Len(ts.Tiles)
        THEN [c |-> c, img |-> RotateTileImage(tile, timg), err |-> NoError]
        ELSE IF ts.Tiles[i].ID = tile.ID
        THEN IF ts.Tiles[i].Image.Source \in bad
             THEN [c |-> c, img |-> NilImage, err |-> ErrIO]
             ELSE LET d == Decode(ts.Tiles[i].Image)
                  IN  LoadTileImages(
                          Store(CountDecode(c, ts.Tiles[i].Image, ts.FirstGID + tile.ID),
                                ts.FirstGID + tile.ID, d),
                          tile, i + 1, d, bad)
        ELSE LoadTileImages(c, tile, i + 1, timg, bad)

\* lines 152-164: the column count and the tile count, derived when declared 0
TilesetColumns(ts) ==
    IF ts.Columns = 0 THEN ts.Image.Width \div (ts.TileWidth + ts.Spacing)
    ELSE ts.Columns

TilesetTileCount(ts) ==
    IF ts.TileCount = 0
    THEN (ts.Image.Height \div (ts.TileHeight + ts.Spacing)) * TilesetColumns(ts)
    ELSE ts.TileCount

\* lines 167-176: the rectangle cut out of the atlas for tile index i
SliceRect(ts, i) ==
    LET x == i % TilesetColumns(ts)
        y == i \div TilesetColumns(ts)
        xOffset == x * ts.Spacing + ts.Margin
        yOffset == y * ts.Spacing + ts.Margin
    IN  Rect(x * ts.TileWidth + xOffset, y * ts.TileHeight + yOffset,
             (x + 1) * ts.TileWidth + xOffset, (y + 1) * ts.TileHeight + yOffset)

\* lines 166-182: every tile index below the tile count is cropped and stored
RECURSIVE SliceAtlas(_, _, _, _, _)
StoreSlice(c, tile, i, img, timg, ts, crop) ==
    SliceAtlas(Store(c, ts.FirstGID + i, crop), tile, i + 1, img,
               IF tile.ID = i THEN crop ELSE timg)

SliceAtlas(c, tile, i, img, timg) ==
    IF i >= TilesetTileCount(m.Tilesets[tile.Tileset])
    THEN [c |-> c, img |-> RotateTileImage(tile, timg), err |-> NoError]
    ELSE StoreSlice(c, tile, i, img, timg, m.Tilesets[tile.Tileset],
                    Crop(img, SliceRect(m.Tilesets[tile.Tileset], i)))

\* lines 125-182: the atlas is opened and decoded, then sliced
LoadAtlas(c, tile, bad) ==
    LET ts == m.Tilesets[tile.Tileset]
    IN  IF ts.Image.Source \in bad
        THEN [c |-> c, img |-> NilImage, err |-> ErrIO]
        ELSE IF TilesetTileCount(ts) > 0 /\ TilesetColumns(ts) = 0
        THEN [c |-> CountDecode(c, ts.Image, ts.FirstGID + tile.ID),
              img |-> NilImage, err |-> Panic]
        ELSE SliceAtlas(CountDecode(c, ts.Image, ts.FirstGID + tile.ID),
                        tile, 0, Decode(ts.Image), NilImage)

getTileImage(c, tile, bad) ==
    LET ts  == m.Tilesets[tile.Tileset]
        gid == ts.FirstGID + tile.ID
    IN  IF gid \in DOMAIN c.tileCache
        THEN [c |-> c, img |-> RotateTileImage(tile, c.tileCache[gid]), err |-> NoError]
        ELSE IF ts.Image = NoImage
        THEN LoadTileImages(c, tile, 1, NilImage, bad)
        ELSE LoadAtlas(c, tile, bad)

\* Map.TileGIDToTile: the tile of the last tileset that starts at or below gid
RECURSIVE FindTileset(_, _)
FindTileset(gid, k) ==
    IF k = 0 THEN 0
    ELSE IF m.Tilesets[k].FirstGID <= gid THEN k
    ELSE FindTileset(gid, k - 1)

TileGIDToTile(gid) ==
    LET k == FindTileset(gid, Len(m.Tilesets))
    IN  IF k = 0
        THEN [err |-> "invalid tile GID", tile |-> << >>]
        ELSE [err |-> NoError,
              tile |-> [Nil |-> FALSE, ID |-> gid - m.Tilesets[k].FirstGID,
                        Tileset |-> k, HorizontalFlip |-> FALSE,
                        VerticalFlip |-> FALSE, DiagonalFlip |-> FALSE,
                        Collision |-> << >>, Animation |-> << >>]]

----------------------------------------------------------------------------
(* Renderer.RenderLayer.  a is the state of one call: the cache and its     *)
(* counters (c), the canvas (Result), the draws made (draws), the layer     *)
(* objects built so far (TileObjects, Animation, colmapX, colmapY), the     *)
(* tile index i and the outcome err.                                        *)

\* the integers lo..hi in counting order, as a loop variable visits them
Counted(lo, hi) == [k \in 1 .. Max2(hi - lo + 1, 0) |-> lo + k - 1]

\* mp[k] = append(mp[k], vs...) for every key k of keys
ConcatAtAll(mp, keys, vs) ==
    [k \in (DOMAIN mp) \cup keys |-> IF k \in keys THEN Get(mp, k, << >>) \o vs ELSE mp[k]]

\* the loops with the second append keyed by the row: colmapX[y] = append(colmapX[y], x)
AddPoints_RowKeyTwice(col, pxmin, pxmax, pymin, pymax) ==
    IF pxmin > pxmax \/ pymin > pymax THEN col
    ELSE [Y |-> ConcatAtAll(col.Y, pymin .. pymax, Counted(pxmin, pxmax)),
          X |-> ConcatAtAll(col.X, pymin .. pymax, Counted(pxmin, pxmax))]

\* lines 230-235: the rows pymin..pymax are walked in order and in each row
\* the columns pxmin..pxmax; colmapY[y] receives every x of the row, and
\* colmapX[x] receives y once per row
AddPoints(col, pxmin, pxmax, pymin, pymax) ==
    IF pxmin > pxmax \/ pymin > pymax THEN col
    ELSE [Y |-> ConcatAtAll(col.Y, pymin .. pymax, Counted(pxmin, pxmax)),
          X |-> ConcatAtAll(col.X, pxmin .. pxmax, Counted(pymin, pymax))]

\* the expansion with the far edges left out (y < pymax, x < pxmax)
AddCollision_ExclusiveEdges(col, pos, collision) ==
    IF collision.Max.Y # 0
    THEN AddPoints(col, pos.Min.X + collision.Min.X, pos.Min.X + collision.Max.X - 1,
                   pos.Min.Y + collision.Min.Y, pos.Min.Y + collision.Max.Y - 1)
    ELSE col

\* lines 225-236: one collision rectangle of a tile placed at pos
AddCollision(col, pos, collision) ==
    IF collision.Max.Y # 0
    THEN AddPoints(col, pos.Min.X + collision.Min.X, pos.Min.X + collision.Max.X,
                   pos.Min.Y + collision.Min.Y, pos.Min.Y + collision.Max.Y)
    ELSE col

\* line 224: all collision rectangles of the tile, in order
RECURSIVE AddCollisions(_, _, _, _)
AddCollisions(col, pos, collisions, k) ==
    IF k > Len(collisions) THEN col
    ELSE AddCollisions(AddCollision(col, pos, collisions[k]), pos, collisions, k + 1)

\* lines 245-250: the Type of the first tile definition with the tile's ID
RECURSIVE TilePlaneOf(_, _, _)
TilePlaneOf(tiles, id, k) ==
    IF k > Len(tiles) THEN ""
    ELSE IF tiles[k].ID = id THEN tiles[k].Type
    ELSE TilePlaneOf(tiles, id, k + 1)

\* lines 252-263: the frames after the first; a frame whose lookup or image
\* load fails is skipped (n counts from 1 as in the code: frame n is
\* Animation[n+1] here)
RECURSIVE AnimationImages(_, _, _, _, _)
\* lines 258-262: g is what getTileImage returned for the frame
AddFrameImage(ltile, n, animgs, bad, g) ==
    IF g.err = Panic THEN [c |-> g.c, animgs |-> animgs, err |-> Panic]
    ELSE IF g.err # NoError THEN AnimationImages(g.c, ltile, n + 1, animgs, bad)
    ELSE AnimationImages(g.c, ltile, n + 1, Append(animgs, g.img), bad)

\* lines 253-258: lt is what TileGIDToTile returned for the frame
AddFrame(c, ltile, n, animgs, bad, lt) ==
    IF lt.err # NoError THEN AnimationImages(c, ltile, n + 1, animgs, bad)
    ELSE AddFrameImage(ltile, n, animgs, bad, getTileImage(c, lt.tile, bad))

AnimationImages(c, ltile, n, animgs, bad) ==
    IF n >= Len(ltile.Animation) THEN [c |-> c, animgs |-> animgs, err |-> NoError]
    ELSE AddFrame(c, ltile, n, animgs, bad,
                  TileGIDToTile(ltile.Animation[n + 1].TileID
                                + m.Tilesets[ltile.Tileset].FirstGID))

\* line 276: uint8(layer.Opacity * 255), the opacity given in hundredths
MaskAlpha(opacity) == (opacity * 255) \div 100

\* the alpha the tile is drawn with: the mask's below opacity 1, else opaque
DrawAlpha(layer) == IF layer.Opacity < 100 THEN MaskAlpha(layer.Opacity) ELSE 255

\* lines 270-283: the tile object is recorded, the tile is composited onto
\* the canvas and the tile index advances
DrawTile(a, layer, pos, img) ==
    [a EXCEPT !.TileObjects = Append(@, [TileImage |-> img, TilePos |-> pos]),
              !.Result = Draw(@, pos, img, DrawAlpha(layer)),
              !.draws = Append(@, [pos |-> pos, img |-> img,
                                   alpha |-> DrawAlpha(layer)]),
              !.i = @ + 1]

\* lines 239-267: an is what the frame loop returned; the animation record
AnimateTile(a, layer, ltile, pos, img, an) ==
    IF an.err # NoError THEN [a EXCEPT !.c = an.c, !.err = an.err]
    ELSE DrawTile([a EXCEPT !.c = an.c,
                            !.Animation = Append(@,
                                [TileImages |-> an.animgs, TilePos |-> pos,
                                 TilePlane |-> TilePlaneOf(m.Tilesets[ltile.Tileset].Tiles,
                                                           ltile.ID, 1),
                                 Duration |-> 0])],
                  layer, pos, img)

\* lines 224-267: col holds the collision maps with the tile's points added
CollideTile(a, layer, ltile, pos, img, bad, col) ==
    IF Len(ltile.Animation) > 0
    THEN AnimateTile([a EXCEPT !.colmapX = col.X, !.colmapY = col.Y],
                     layer, ltile, pos, img,
                     AnimationImages(a.c, ltile, 1, << img >>, bad))
    ELSE DrawTile([a EXCEPT !.colmapX = col.X, !.colmapY = col.Y], layer, pos, img)

\* line 222: pos is the tile's placement
PlaceTile(a, layer, ltile, pos, img, bad) ==
    CollideTile(a, layer, ltile, pos, img, bad,
                AddCollisions([X |-> a.colmapX, Y |-> a.colmapY], pos,
                              ltile.Collision, 1))

\* the load whose I/O error skips the tile and lets the walk go on
LoadedTile_SkipsUnreadable(a, layer, ltile, x, y, bad, g) ==
    IF g.err = ErrIO THEN [a EXCEPT !.c = g.c, !.i = @ + 1]
    ELSE IF g.err # NoError THEN [a EXCEPT !.c = g.c, !.err = g.err]
    ELSE IF g.img.nil THEN [a EXCEPT !.c = g.c, !.err = Panic]
    ELSE PlaceTile([a EXCEPT !.c = g.c], layer, ltile,
                   GetTrueTilePosition(engine, Bounds(g.img), x, y), g.img, bad)

\* lines 217-222: g is what getTileImage returned for the tile; img.Bounds()
\* of a nil image panics
LoadedTile(a, layer, ltile, x, y, bad, g) ==
    IF g.err # NoError THEN [a EXCEPT !.c = g.c, !.err = g.err]
    ELSE IF g.img.nil THEN [a EXCEPT !.c = g.c, !.err = Panic]
    ELSE PlaceTile([a EXCEPT !.c = g.c], layer, ltile,
                   GetTrueTilePosition(engine, Bounds(g.img), x, y), g.img, bad)

\* the walk with a nil tile skipped before the index is advanced
RenderTile_NilKeepsIndex(a, layer, ltile, x, y, bad) ==
    IF ltile.Nil THEN a
    ELSE LoadedTile(a, layer, ltile, x, y, bad, getTileImage(a.c, ltile, bad))

\* lines 211-283: the body of the grid walk for the cell (x,y)
RenderTile(a, layer, ltile, x, y, bad) ==
    IF ltile.Nil THEN [a EXCEPT !.i = @ + 1]
    ELSE LoadedTile(a, layer, ltile, x, y, bad, getTileImage(a.c, ltile, bad))

\* lines 209-285: the grid walk, x fastest, until the end or the first error
RECURSIVE WalkGrid(_, _, _, _, _)
WalkGrid(a, layer, x, y, bad) ==
    IF a.err # NoError \/ y >= m.Height THEN a
    ELSE IF x >= m.Width THEN WalkGrid(a, layer, 0, y + 1, bad)
    ELSE WalkGrid(RenderTile(a, layer, layer.Tiles[a.i + 1], x, y, bad),
                  layer, x + 1, y, bad)

\* The LayerObjects of a call that did not get to set the collision maps.
NoLayerObjects ==
    [Animation |-> << >>, TileObjects |-> << >>,
     XCollision |-> << >>, YCollision |-> << >>, nilMaps |-> TRUE]

\* the return that hands out the collision maps built so far on an error too
LayerReturn_MapsOnError(a) ==
    [c |-> a.c, Result |-> a.Result, draws |-> a.draws, err |-> a.err,
     lo |-> [Animation |-> a.Animation, TileObjects |-> a.TileObjects,
             XCollision |-> a.colmapX, YCollision |-> a.colmapY,
             nilMaps |-> FALSE]]

\* lines 287-289 and 219: what RenderLayer returns after the walk a
LayerReturn(a) ==
    [c |-> a.c, Result |-> a.Result, draws |-> a.draws, err |-> a.err,
     lo |-> IF a.err = NoError
            THEN [Animation |-> a.Animation, TileObjects |-> a.TileObjects,
                  XCollision |-> a.colmapX, YCollision |-> a.colmapY,
                  nilMaps |-> FALSE]
            ELSE [NoLayerObjects EXCEPT !.Animation = a.Animation,
                                        !.TileObjects = a.TileObjects]]

\* the render orders RenderLayer walks (line 196)
SupportedRenderOrder(ro) == ro = "" \/ ro = "right-down"

\* the call that draws on a newly allocated canvas instead of r.Result
RenderLayer_OnBlankCanvas(c, canvas, index, bad) ==
    IF ~SupportedRenderOrder(m.RenderOrder)
    THEN [c |-> c, Result |-> canvas, draws |-> << >>,
          lo |-> NoLayerObjects, err |-> ErrUnsupportedRenderOrder]
    ELSE LayerReturn(WalkGrid(
             [c |-> c, Result |-> NewNRGBA(GetFinalImageSize(engine)), draws |-> << >>,
              Animation |-> << >>, TileObjects |-> << >>,
              colmapX |-> << >>, colmapY |-> << >>, i |-> 0, err |-> NoError],
             m.Layers[index + 1], 0, 0, bad))

\* RenderLayer(index) on the renderer state [c, Result]: the state after the
\* call, what it returned (lo, err) and the draws it made
RenderLayer(c, canvas, index, bad) ==
    IF ~SupportedRenderOrder(m.RenderOrder)
    THEN [c |-> c, Result |-> canvas, draws |-> << >>,
          lo |-> NoLayerObjects, err |-> ErrUnsupportedRenderOrder]
    ELSE LayerReturn(WalkGrid(
             [c |-> c, Result |-> canvas, draws |-> << >>,
              Animation |-> << >>, TileObjects |-> << >>,
              colmapX |-> << >>, colmapY |-> << >>, i |-> 0, err |-> NoError],
             m.Layers[index + 1], 0, 0, bad))

\* lines 310-315: the layer's lists are appended key by key
RECURSIVE MergeInto(_, _, _)
MergeKey(acc, mp, keys, k) == MergeInto(ConcatAt(acc, k, mp[k]), mp, keys \ {k})

MergeInto(acc, mp, keys) ==
    IF keys = {} THEN acc
    ELSE MergeKey(acc, mp, keys, CHOOSE k \in keys : TRUE)

\* lines 300-316: the layers in order, invisible ones skipped, until the end
\* or the first error.  v carries the renderer state, the merged maps, the
\* indices RenderLayer was called with, what each call returned and all
\* draws made.
RECURSIVE VisitLayers(_, _, _)
RECURSIVE MergeLayer(_, _, _, _)
\* the visit without the test of line 301: every layer is rendered
VisitLayers_IgnoreVisible(v, i, bad) ==
    IF i >= Len(m.Layers) THEN v
    ELSE MergeLayer(v, i, bad, RenderLayer(v.c, v.Result, i, bad))

\* the merge that goes on to the next layer after a failed one, keeping the error
MergeLayer_GoesOnAfterError(v, i, bad, l) ==
    IF l.err = Panic
    THEN [v EXCEPT !.c = l.c, !.Result = l.Result, !.draws = @ \o l.draws,
                   !.rendered = Append(@, i), !.layers = Append(@, l.lo),
                   !.err = l.err]
    ELSE VisitLayers(
             [v EXCEPT !.c = l.c, !.Result = l.Result, !.draws = @ \o l.draws,
                       !.rendered = Append(@, i), !.layers = Append(@, l.lo),
                       !.err = IF v.err # NoError THEN v.err ELSE l.err],
             i + 1, bad)

\* lines 305-315: l is what RenderLayer(i) returned
MergeLayer(v, i, bad, l) ==
    IF l.err # NoError
    THEN [v EXCEPT !.c = l.c, !.Result = l.Result, !.draws = @ \o l.draws,
                   !.rendered = Append(@, i), !.layers = Append(@, l.lo),
                   !.err = l.err]
    ELSE VisitLayers(
             [v EXCEPT !.c = l.c, !.Result = l.Result, !.draws = @ \o l.draws,
                       !.rendered = Append(@, i), !.layers = Append(@, l.lo),
                       !.XCollision = MergeInto(@, l.lo.XCollision,
                                                DOMAIN l.lo.XCollision),
                       !.YCollision = MergeInto(@, l.lo.YCollision,
                                                DOMAIN l.lo.YCollision)],
             i + 1, bad)

VisitLayers(v, i, bad) ==
    IF i >= Len(m.Layers) THEN v
    ELSE IF ~m.Layers[i + 1].Visible THEN VisitLayers(v, i + 1, bad)
    ELSE MergeLayer(v, i, bad, RenderLayer(v.c, v.Result, i, bad))

\* the return that hands on the tile objects and animation records of the
\* last layer rendered
VisibleReturn_CarriesObjects(v) ==
    [c |-> v.c, Result |-> v.Result, draws |-> v.draws, err |-> v.err,
     rendered |-> v.rendered, layers |-> v.layers,
     lo |-> [Animation |-> IF v.layers = << >> THEN << >>
                           ELSE v.layers[Len(v.layers)].Animation,
             TileObjects |-> IF v.layers = << >> THEN << >>
                             ELSE v.layers[Len(v.layers)].TileObjects,
             XCollision |-> v.XCollision, YCollision |-> v.YCollision,
             nilMaps |-> FALSE]]

\* lines 295-298 and 307, 317: what RenderVisibleLayers returns after the visit v
VisibleReturn(v) ==
    [c |-> v.c, Result |-> v.Result, draws |-> v.draws, err |-> v.err,
     rendered |-> v.rendered, layers |-> v.layers,
     lo |-> [Animation |-> << >>, TileObjects |-> << >>,
             XCollision |-> v.XCollision, YCollision |-> v.YCollision,
             nilMaps |-> FALSE]]

\* RenderVisibleLayers on the renderer state [c, Result]
RenderVisibleLayers(c, canvas, bad) ==
    VisibleReturn(VisitLayers([c |-> c, Result |-> canvas, draws |-> << >>,
                               rendered |-> << >>, layers |-> << >>,
                               XCollision |-> << >>, YCollision |-> << >>,
                               err |-> NoError], 0, bad))

----------------------------------------------------------------------------
(* The maps the renderer is run on. *)

NilTile ==
    [Nil |-> TRUE, ID |-> 0, Tileset |-> 0, HorizontalFlip |-> FALSE,
     VerticalFlip |-> FALSE, DiagonalFlip |-> FALSE,
     Collision |-> << >>, Animation |-> << >>]

\* a layer tile of tileset ts (an index into the map's Tilesets) with local id
Tile(ts, id) == [NilTile EXCEPT !.Nil = FALSE, !.ID = id, !.Tileset = ts]

Frame(id) == [TileID |-> id, Duration |-> 100]

\* an atlas of two 2x2 tiles in one row, global ids 1 and 2
GroundAtlas ==
    [FirstGID |-> 1, TileWidth |-> 2, TileHeight |-> 2, Margin |-> 0, Spacing |-> 0,
     Columns |-> 2, TileCount |-> 2,
     Image |-> [Source |-> "ground.png", Width |-> 4, Height |-> 2],
     Tiles |-> << [ID |-> 1, Type |-> "water", Image |-> NoImage] >>]

\* a collection of single images, global ids 3 and 4; the second is a tall prop
Props ==
    [FirstGID |-> 3, TileWidth |-> 2, TileHeight |-> 3, Margin |-> 0, Spacing |-> 0,
     Columns |-> 0, TileCount |-> 2, Image |-> NoImage,
     Tiles |-> << [ID |-> 0, Type |-> "door",
                   Image |-> [Source |-> "door.png", Width |-> 2, Height |-> 2]],
                  [ID |-> 1, Type |-> "tree",
                   Image |-> [Source |-> "tree.png", Width |-> 2, Height |-> 3]] >>]

Files == {"ground.png", "door.png", "tree.png"}

\* The tiles a cell of the first layer holds when it is not empty, by cell:
\* plain ground with the collision box (4,4)-(8,8); animated, mirrored water whose frames
\* are itself, the ground, the door (global id 3) and a tile no tileset
\* defines; a door with two boxes, the first with Max.Y = 0; a tall tree.
Ground == [Tile(1, 0) EXCEPT !.Collision = << Rect(4, 4, 8, 8) >>]
Water  == [Tile(1, 1) EXCEPT !.HorizontalFlip = TRUE,
                             !.Animation = << Frame(1), Frame(0), Frame(2), Frame(7) >>]
Door   == [Tile(2, 0) EXCEPT !.Collision = << Rect(0, 0, 1, 0), Rect(1, 0, 1, 1) >>]
Tree   == [Tile(2, 1) EXCEPT !.DiagonalFlip = TRUE,
                             !.Collision = << Rect(0, 1, 1, 2) >>]

Palette == << Ground, Water, Door, Tree >>

\* every mix of empty and filled cells of a 2x2 grid
GridLayers == { [i \in 1..4 |-> IF i \in S THEN Palette[i] ELSE NilTile] :
                   S \in SUBSET (1..4) }

\* the second layer: empty, a translucent tree over a door, or a door, a tile
\* whose id (5) no tile definition has, and water
TopLayers ==
    { [Tiles |-> << NilTile, NilTile, NilTile, NilTile >>, Opacity |-> 100],
      [Tiles |-> << Tree, NilTile, Door, NilTile >>, Opacity |-> 50],
      [Tiles |-> << Door, Tile(2, 2), Water, NilTile >>, Opacity |-> 100] }

Layer(tiles, visible, opacity) ==
    [Tiles |-> tiles, Visible |-> visible, Opacity |-> opacity]

Maps ==
    { [Orientation |-> o, RenderOrder |-> ro, Width |-> 2, Height |-> 2,
       TileWidth |-> 2, TileHeight |-> 2,
       Tilesets |-> << GroundAtlas, Props >>,
       Layers |-> << Layer(g, v1, 100), Layer(t.Tiles, v2, t.Opacity) >>] :
        o \in {"orthogonal", "isometric", ""},
        ro \in {"", "right-down", "left-up"},
        g \in GridLayers, t \in TopLayers,
        v1 \in BOOLEAN, v2 \in BOOLEAN }

\* An atlas of 2x2 tiles, global ids from 1, in every geometry: with and
\* without margin and spacing, columns and tile count declared or left 0 to
\* be derived, in a picture 2, 4 or 5 pixels wide and 2 or 5 pixels high.
Atlases ==
    { [FirstGID |-> 1, TileWidth |-> 2, TileHeight |-> 2, Margin |-> mg, Spacing |-> sp,
       Columns |-> cols, TileCount |-> cnt,
       Image |-> [Source |-> "ground.png", Width |-> w, Height |-> h],
       Tiles |-> << [ID |-> 0, Type |-> "lava", Image |-> NoImage] >>] :
        mg \in {0, 1}, sp \in {0, 1}, cols \in {0, 2}, cnt \in {0, 3},
        w \in {2, 4, 5}, h \in {2, 5} }

\* lava animated by the tiles 1 and 3 of its atlas
Lava == [Tile(1, 0) EXCEPT !.Animation = << Frame(0), Frame(1), Frame(3) >>]

\* one row of two cells: lava beside tile 1, tile 2 alone, tile 3 alone
AtlasLayers ==
    { << Lava, Tile(1, 1) >>, << Tile(1, 2), NilTile >>, << NilTile, Tile(1, 3) >> }

AtlasMaps ==
    { [Orientation |-> "orthogonal", RenderOrder |-> "right-down",
       Width |-> 2, Height |-> 1, TileWidth |-> 2, TileHeight |-> 2,
       Tilesets |-> << ts >>,
       Layers |-> << Layer(t, v, 100) >>] :
        ts \in Atlases, t \in AtlasLayers, v \in BOOLEAN }

\* the files that cannot be read during one call: none, or one of them
Unreadable == {{}} \cup {{f} : f \in Files}

----------------------------------------------------------------------------
(* The state machine. *)

NoEngine == [init |-> FALSE, w |-> 0, h |-> 0, tw |-> 0, th |-> 0]

NoReturn ==
    [op |-> "none", index |-> 0, err |-> NoError, lo |-> NoLayerObjects,
     draws |-> << >>, rendered |-> << >>, layers |-> << >>, bad |-> {}]

InitWith(mp) ==
    /\ m = mp
    /\ r = "nil"
    /\ engine = NoEngine
    /\ tileCache = << >>
    /\ Result = << >>
    /\ allocated = 0
    /\ ret = NoReturn
    /\ decoded = << >>
    /\ fetched = << >>
    /\ stored = << >>
    /\ calls = 0

Init == \E mp \in Maps : InitWith(mp)

\* a value other than "orthogonal" is what line 91 of the code would take
\* if it also let isometric maps through
SupportedOrientation_Isometric(o) == o = "orthogonal" \/ o = "isometric"

\* line 91: the orientations an engine exists for
SupportedOrientation(o) == o = "orthogonal"

\* NewRenderer(m)
NewRenderer ==
    /\ r = "nil"
    /\ IF SupportedOrientation(m.Orientation)
       THEN /\ r' = "renderer"
            /\ engine' = EngineInit(m)
            /\ Result' = NewNRGBA(GetFinalImageSize(engine'))
            /\ allocated' = allocated + 1
            /\ ret' = [NoReturn EXCEPT !.op = "NewRenderer"]
       ELSE /\ ret' = [NoReturn EXCEPT !.op = "NewRenderer",
                                       !.err = ErrUnsupportedOrientation]
            /\ UNCHANGED <<r, engine, Result, allocated>>
    /\ UNCHANGED <<m, tileCache, decoded, fetched, stored, calls>>

\* a call can be made on a renderer, by a program that has not panicked
CanCall == r = "renderer" /\ ret.err # Panic /\ calls < MaxCalls

Cache ==
    [tileCache |-> tileCache, decoded |-> decoded, fetched |-> fetched, stored |-> stored]

\* the renderer after a render call that left the state and results l
Rendered(l, op, index, bad) ==
    /\ tileCache' = l.c.tileCache
    /\ decoded' = l.c.decoded
    /\ fetched' = l.c.fetched
    /\ stored' = l.c.stored
    /\ Result' = l.Result
    /\ ret' = [NoReturn EXCEPT !.op = op, !.index = index, !.err = l.err,
                               !.lo = l.lo, !.draws = l.draws, !.bad = bad,
                               !.rendered = IF op = "RenderLayer" THEN << index >>
                                            ELSE l.rendered,
                               !.layers = IF op = "RenderLayer" THEN << l.lo >>
                                          ELSE l.layers]
    /\ calls' = calls + 1
    /\ UNCHANGED <<m, r, engine, allocated>>

\* r.RenderLayer(index)
RenderLayerCall ==
    /\ CanCall
    /\ \E index \in 0 .. Len(m.Layers) - 1, bad \in Unreadable :
          Rendered(RenderLayer(Cache, Result, index, bad), "RenderLayer", index, bad)

\* r.RenderVisibleLayers()
RenderVisibleLayersCall ==
    /\ CanCall
    /\ \E bad \in Unreadable :
          Rendered(RenderVisibleLayers(Cache, Result, bad), "RenderVisibleLayers", 0, bad)

\* the Clear that also empties the tile cache
Clear_DropsTileCache ==
    /\ CanCall
    /\ Result' = NewNRGBA(GetFinalImageSize(engine))
    /\ allocated' = allocated + 1
    /\ tileCache' = << >>
    /\ ret' = [NoReturn EXCEPT !.op = "Clear"]
    /\ calls' = calls + 1
    /\ UNCHANGED <<m, r, engine, decoded, fetched, stored>>

\* r.Clear()
Clear ==
    /\ CanCall
    /\ Result' = NewNRGBA(GetFinalImageSize(engine))
    /\ allocated' = allocated + 1
    /\ ret' = [NoReturn EXCEPT !.op = "Clear"]
    /\ calls' = calls + 1
    /\ UNCHANGED <<m, r, engine, tileCache, decoded, fetched, stored>>

Next == NewRenderer \/ RenderLayerCall \/ RenderVisibleLayersCall \/ Clear

Spec == Init /\ [][Next]_vars

\* the same renderer on the maps of one atlas in every geometry
InitAtlas == \E mp \in AtlasMaps : InitWith(mp)

SpecAtlas == InitAtlas /\ [][Next]_vars

----------------------------------------------------------------------------
(* Properties. *)

\* the step is a return of the render call op (not a panic)
Returned(op) == calls' = calls + 1 /\ ret'.op = op /\ ret'.err # Panic

\* the values of a sequence
Range(q) == {q[k] : k \in DOMAIN q}

\* the indices 0..Len(q)-1 whose element satisfies Test, ascending
IndicesWhere(q, Test(_)) ==
    LET Keep(i) == Test(q[i + 1])
    IN  SelectSeq([k \in 1 .. Len(q) |-> k - 1], Keep)

IsTile(t) == ~t.Nil

\* C1: NewRenderer returns a renderer exactly when the map's orientation is
\* "orthogonal"; for any other orientation it returns
\* ErrUnsupportedOrientation and no renderer, and neither an engine is
\* initialised nor a canvas allocated.
C1_OrientationDecidesConstruction ==
    ret.op # "none" =>
        /\ (r = "renderer") <=> (m.Orientation = "orthogonal")
        /\ r = "renderer" => engine.init /\ allocated >= 1
        /\ r = "nil" => /\ ret.op = "NewRenderer"
                        /\ ret.err = ErrUnsupportedOrientation
                        /\ ~engine.init /\ allocated = 0 /\ Result = << >>

C1_Witness ==
    /\ ret.op = "NewRenderer" /\ m.Orientation = "isometric"
    /\ r = "nil" /\ ret.err = ErrUnsupportedOrientation

\* C2: on a map whose render order is neither "" nor "right-down", every
\* render call (RenderLayer on any layer, and RenderVisibleLayers) returns
\* ErrUnsupportedRenderOrder and leaves the canvas and the tile cache as they
\* were.
C2_EveryRenderCallRejectsRenderOrder ==
    [][ (Returned("RenderLayer") \/ Returned("RenderVisibleLayers"))
        /\ m.RenderOrder \notin {"", "right-down"}
        => /\ ret'.err = ErrUnsupportedRenderOrder
           /\ Result' = Result
           /\ tileCache' = tileCache ]_vars

\* C3: in a successful RenderLayer the tiles drawn are exactly the non-nil
\* tiles of the layer, in index order, the tile of array index i at grid
\* coordinate (i mod Width, i div Width) (left edge and bottom edge on that
\* cell's); there is one TileObject per non-nil tile and one animation
\* record per animated non-nil tile; and a layer of nil tiles only draws
\* nothing, caches nothing and returns no objects and no collision points.
C3_NilTilesSkippedIndexAdvances ==
    [][ Returned("RenderLayer") /\ ret'.err = NoError =>
        LET tiles == m.Layers[ret'.index + 1].Tiles
            idx   == IndicesWhere(tiles, IsTile)
            Animated(t) == ~t.Nil /\ Len(t.Animation) > 0
        IN  /\ Len(ret'.draws) = Len(idx)
            /\ Len(ret'.lo.TileObjects) = Len(idx)
            /\ Len(ret'.lo.Animation) = Len(IndicesWhere(tiles, Animated))
            /\ \A k \in 1 .. Len(idx) :
                 LET i == idx[k]
                     t == tiles[i + 1]
                     d == ret'.draws[k]
                 IN  /\ d.pos.Min.X = (i % m.Width) * m.TileWidth
                     /\ d.pos.Max.Y = ((i \div m.Width) + 1) * m.TileHeight
                     /\ d.img = RotateTileImage(t,
                                    tileCache'[m.Tilesets[t.Tileset].FirstGID + t.ID])
                     /\ ret'.lo.TileObjects[k] = [TileImage |-> d.img, TilePos |-> d.pos]
            /\ Len(idx) = 0 =>
                 /\ Result' = Result /\ tileCache' = tileCache
                 /\ decoded' = decoded
                 /\ ret'.lo.XCollision = << >> /\ ret'.lo.YCollision = << >> ]_vars

\* the spec's 2x2 scenario: three tiles and an empty last cell, rendered
C3_Witness ==
    /\ ret.op = "RenderLayer" /\ ret.err = NoError /\ ret.index = 0
    /\ \A i \in 1 .. 3 : ~m.Layers[1].Tiles[i].Nil
    /\ m.Layers[1].Tiles[4].Nil
    /\ Len(ret.draws) = 3
    /\ ret.draws[3].pos = Rect(0, 2, 2, 4)
    /\ Result[<<2, 2>>] = << >> /\ Result[<<3, 3>>] = << >>

\* y is listed under x in mx exactly when x is listed under y in my
Symmetric(mx, my) ==
    /\ \A x \in DOMAIN mx : \A y \in Range(mx[x]) : y \in DOMAIN my /\ x \in Range(my[y])
    /\ \A y \in DOMAIN my : \A x \in Range(my[y]) : x \in DOMAIN mx /\ y \in Range(mx[x])

\* C4: in the LayerObjects of every successful RenderLayer and
\* RenderVisibleLayers call, y is in XCollision[x] exactly when x is in
\* YCollision[y].
C4_CollisionMapsSymmetric ==
    ret.op \in {"RenderLayer", "RenderVisibleLayers"} /\ ret.err = NoError
        => Symmetric(ret.lo.XCollision, ret.lo.YCollision)

\* two visible layers with collision points merged
C4_Witness ==
    /\ ret.op = "RenderVisibleLayers" /\ ret.err = NoError
    /\ Len(ret.rendered) = 2
    /\ \A k \in 1 .. 2 : DOMAIN ret.layers[k].XCollision # {}
    /\ \E x \in DOMAIN ret.lo.XCollision : Len(ret.lo.XCollision[x]) > 2

\* the points of the collision rectangle rc of a tile placed at pos, both
\* edges included
RectPoints(pos, rc) ==
    (pos.Min.X + rc.Min.X .. pos.Min.X + rc.Max.X)
        \X (pos.Min.Y + rc.Min.Y .. pos.Min.Y + rc.Max.Y)

\* the point p is in both collision maps of lo
InBothMaps(lo, p) ==
    /\ p[1] \in DOMAIN lo.XCollision /\ p[2] \in Range(lo.XCollision[p[1]])
    /\ p[2] \in DOMAIN lo.YCollision /\ p[1] \in Range(lo.YCollision[p[2]])

\* after a successful RenderLayer every point of every collision rectangle
\* that satisfies Counts, of every rendered tile, is in both maps
RectanglesExpanded(Counts(_)) ==
    ret.op = "RenderLayer" /\ ret.err = NoError =>
        LET tiles == m.Layers[ret.index + 1].Tiles
            idx   == IndicesWhere(tiles, IsTile)
        IN  \A k \in 1 .. Len(idx) :
              \A rc \in Range(tiles[idx[k] + 1].Collision) :
                Counts(rc) =>
                  \A p \in RectPoints(ret.lo.TileObjects[k].TilePos, rc) :
                     InBothMaps(ret.lo, p)

\* the layer rendered holds one tile only, in the first cell, and that tile
\* has the single collision rectangle (4,4)-(8,8)
OnlyGroundRendered ==
    /\ ret.op = "RenderLayer" /\ ret.err = NoError
    /\ IndicesWhere(m.Layers[ret.index + 1].Tiles, IsTile) = << 0 >>
    /\ m.Layers[ret.index + 1].Tiles[1].Collision = << Rect(4, 4, 8, 8) >>
    /\ ret.lo.TileObjects[1].TilePos.Min = [X |-> 0, Y |-> 0]

AnyRectangle(rc) == TRUE
MaxYNotZero(rc) == rc.Max.Y # 0

\* C5 as claimed: after a successful RenderLayer, every point of every
\* collision rectangle of every rendered tile, both edges included, is in
\* both maps.
C5_EveryRectangleExpanded == RectanglesExpanded(AnyRectangle)

\* C5 as amended: after a successful RenderLayer, every point of every
\* collision rectangle whose Max.Y is not 0, both edges included, is in both
\* maps (a rectangle with Max.Y = 0 is skipped); a single rectangle
\* (4,4)-(8,8) at origin (0,0) gives XCollision and YCollision exactly the
\* keys 4..8, each holding exactly 4..8.
C5_RectanglesWithMaxYExpanded ==
    /\ RectanglesExpanded(MaxYNotZero)
    /\ OnlyGroundRendered =>
         /\ DOMAIN ret.lo.XCollision = 4 .. 8
         /\ DOMAIN ret.lo.YCollision = 4 .. 8
         /\ \A k \in 4 .. 8 : /\ ret.lo.XCollision[k] = << 4, 5, 6, 7, 8 >>
                              /\ ret.lo.YCollision[k] = << 4, 5, 6, 7, 8 >>

\* a door (one rectangle with Max.Y = 0, one without) rendered beside the
\* ground tile
C5_Witness ==
    /\ ret.op = "RenderLayer" /\ ret.err = NoError /\ ret.index = 0
    /\ IndicesWhere(m.Layers[1].Tiles, IsTile) = << 0, 2 >>
    /\ InBothMaps(ret.lo, << 1, 3 >>)
    /\ InBothMaps(ret.lo, << 8, 4 >>)
    /\ ~InBothMaps(ret.lo, << 0, 2 >>)

\* C6: over any sequence of render calls (that return), the image of one
\* global tile id is decoded at most once: a second request for the same id
\* is a cache hit that decodes no file.
C6_DecodedOncePerTileId ==
    ret.err # Panic => \A g \in DOMAIN fetched : fetched[g] <= 1

\* the column count and the tile count of an atlas as the spec derives them
AtlasColumns(ts) ==
    IF ts.Columns # 0 THEN ts.Columns
    ELSE ts.Image.Width \div (ts.TileWidth + ts.Spacing)

AtlasTileCount(ts) ==
    IF ts.TileCount # 0 THEN ts.TileCount
    ELSE (ts.Image.Height \div (ts.TileHeight + ts.Spacing)) * AtlasColumns(ts)

\* the atlas sub-image of tile index i: origin (column x tileWidth + column
\* x spacing + margin, row x tileHeight + row x spacing + margin), size
\* tileWidth x tileHeight
AtlasSlice(ts, i) ==
    LET col == i % AtlasColumns(ts)
        row == i \div AtlasColumns(ts)
    IN  [nil |-> FALSE, src |-> ts.Image.Source,
         ox |-> col * ts.TileWidth + col * ts.Spacing + ts.Margin,
         oy |-> row * ts.TileHeight + row * ts.Spacing + ts.Margin,
         w |-> ts.TileWidth, h |-> ts.TileHeight,
         hf |-> FALSE, vf |-> FALSE, df |-> FALSE]

\* C7: once a tile of a single-atlas tileset has been loaded (its atlas was
\* decoded and getTileImage returned), the cache holds, for every tile index
\* i below the tile count, under key FirstGID+i, the atlas sub-rectangle of
\* size tileWidth x tileHeight at the origin the geometry gives.
C7_AtlasSlicedIntoFullTiles ==
    \A k \in 1 .. Len(m.Tilesets) :
       LET ts == m.Tilesets[k]
       IN  /\ ts.Image # NoImage
           /\ ts.Image.Source \in DOMAIN decoded
           /\ ret.err # Panic
           => \A i \in 0 .. AtlasTileCount(ts) - 1 :
                 /\ ts.FirstGID + i \in DOMAIN tileCache
                 /\ tileCache[ts.FirstGID + i] = AtlasSlice(ts, i)

\* C8: once any tile of a tileset of single images has been loaded, the
\* image of every tile definition of that tileset is in the cache under its
\* own global id (after a call that returned no error).
C8_WholeCollectionCached ==
    \A k \in 1 .. Len(m.Tilesets) :
       LET ts == m.Tilesets[k]
           ids == {ts.FirstGID + ts.Tiles[j].ID : j \in 1 .. Len(ts.Tiles)}
       IN  /\ ts.Image = NoImage
           /\ ids \cap DOMAIN tileCache # {}
           /\ ret.err = NoError
           => ids \subseteq DOMAIN tileCache

\* C9: a cache entry, once made, is never removed, reassigned or re-cropped
\* by a later call (that returns).
C9_CacheEntriesWrittenOnce ==
    [][ ret'.err # Panic => \A g \in DOMAIN tileCache :
           /\ g \in DOMAIN tileCache'
           /\ tileCache'[g] = tileCache[g]
           /\ stored'[g] = stored[g] ]_vars

\* the indices of the visible layers, ascending
VisibleIndices ==
    LET Shown(l) == l.Visible IN IndicesWhere(m.Layers, Shown)

\* the lists the layers los hold under key k, one after the other
RECURSIVE ListsJoined(_, _, _)
ListsJoined(los, k, n) ==
    IF n = 0 THEN << >>
    ELSE ListsJoined(los, k, n - 1) \o (IF k \in DOMAIN los[n] THEN los[n][k] ELSE << >>)

\* the map merged holds, under the keys of the maps parts and no others,
\* their lists one after the other
IsConcatenation(merged, parts) ==
    /\ DOMAIN merged = UNION {DOMAIN parts[n] : n \in DOMAIN parts}
    /\ \A k \in DOMAIN merged : merged[k] = ListsJoined(parts, k, Len(parts))

\* C10: RenderVisibleLayers calls RenderLayer on visible layers only, in
\* index order; when it succeeds it has rendered every visible layer, and
\* XCollision (YCollision) holds under every key the visible layers' lists
\* for that key one after the other, in layer order, duplicates kept.
C10_VisibleLayersInOrderMerged ==
    ret.op = "RenderVisibleLayers" =>
        /\ Len(ret.rendered) <= Len(VisibleIndices)
        /\ ret.rendered = SubSeq(VisibleIndices, 1, Len(ret.rendered))
        /\ ret.err = NoError =>
             /\ ret.rendered = VisibleIndices
             /\ IsConcatenation(ret.lo.XCollision,
                                [n \in DOMAIN ret.layers |-> ret.layers[n].XCollision])
             /\ IsConcatenation(ret.lo.YCollision,
                                [n \in DOMAIN ret.layers |-> ret.layers[n].YCollision])

\* two visible layers rendered, the door of the second over the door of the
\* first: a key of both holds the first layer's list, then the second's,
\* with the doors' points twice
C10_Witness ==
    /\ ret.op = "RenderVisibleLayers" /\ ret.err = NoError
    /\ ret.rendered = << 0, 1 >>
    /\ \E k \in DOMAIN ret.lo.XCollision :
          /\ k \in DOMAIN ret.layers[1].XCollision
          /\ k \in DOMAIN ret.layers[2].XCollision
          /\ ret.lo.XCollision[k] =
                ret.layers[1].XCollision[k] \o ret.layers[2].XCollision[k]
          /\ Len(ret.lo.XCollision[k]) > Cardinality(Range(ret.lo.XCollision[k]))


\* the canvas after the draws ds[k..] are made on it in order
RECURSIVE Replay(_, _, _)
Replay(canvas, ds, k) ==
    IF k > Len(ds) THEN canvas
    ELSE Replay(Draw(canvas, ds[k].pos, ds[k].img, ds[k].alpha), ds, k + 1)

\* the number of non-nil tiles among the first n tiles of a layer
TilesAmong(tiles, n) == Cardinality({i \in 1 .. n : ~tiles[i].Nil})

\* the number of non-nil tiles of the layers idx[1..n] together
RECURSIVE TilesOfLayers(_, _)
TilesOfLayers(idx, n) ==
    IF n = 0 THEN 0
    ELSE TilesOfLayers(idx, n - 1)
         + TilesAmong(m.Layers[idx[n] + 1].Tiles, Len(m.Layers[idx[n] + 1].Tiles))

\* the files that hold the image of layer tile t
FilesOf(t) ==
    LET ts == m.Tilesets[t.Tileset]
    IN  IF ts.Image # NoImage THEN {ts.Image.Source}
        ELSE {ts.Tiles[j].Image.Source : j \in {i \in 1 .. Len(ts.Tiles) : ts.Tiles[i].ID = t.ID}}

\* tile j of the layer is one whose image could not be loaded in the call
\* that just returned: its file was unreadable and it is still not cached
FailedTile(tiles, j) ==
    /\ ~tiles[j].Nil
    /\ FilesOf(tiles[j]) \cap ret'.bad # {}
    /\ m.Tilesets[tiles[j].Tileset].FirstGID + tiles[j].ID \notin DOMAIN tileCache'

\* C11: when RenderLayer fails for a visible layer k during
\* RenderVisibleLayers, the pass returns that error at once: k is the last
\* layer rendered and every layer rendered is visible, in order; the canvas
\* is the canvas before the call with every tile of the visible layers
\* before k drawn on it, then the tiles of layer k that precede the failing
\* tile; nothing is rolled back.
C11_FailedLayerStopsThePass ==
    [][ Returned("RenderVisibleLayers") /\ ret'.err # NoError =>
        LET n      == Len(ret'.rendered)
            tiles  == m.Layers[ret'.rendered[n] + 1].Tiles
            before == TilesOfLayers(ret'.rendered, n - 1)
        IN  /\ n >= 1
            /\ n <= Len(VisibleIndices)
            /\ ret'.rendered = SubSeq(VisibleIndices, 1, n)
            /\ \A j \in 1 .. n - 1 : ~ret'.layers[j].nilMaps
            /\ ret'.layers[n].nilMaps
            /\ Result' = Replay(Result, ret'.draws, 1)
            /\ Len(ret'.draws) >= before
            /\ ret'.err \in {ErrIO, ErrUnsupportedRenderOrder}
            /\ ret'.err = ErrUnsupportedRenderOrder =>
                   /\ ~SupportedRenderOrder(m.RenderOrder)
                   /\ n = 1 /\ ret'.draws = << >> /\ Result' = Result
            /\ ret'.err = ErrIO =>
                   \E j \in 1 .. Len(tiles) :
                      /\ FailedTile(tiles, j)
                      /\ Len(ret'.draws) = before + TilesAmong(tiles, j - 1) ]_vars

\* the second of two visible layers failed on its door after drawing its
\* tree, with the first layer's tiles on the canvas
C11_Witness ==
    /\ ret.op = "RenderVisibleLayers" /\ ret.err = ErrIO
    /\ ret.rendered = << 0, 1 >>
    /\ ret.bad = {"door.png"}
    /\ Len(ret.layers[1].TileObjects) >= 1
    /\ Len(ret.layers[2].TileObjects) = 1
    /\ Len(ret.draws) = Len(ret.layers[1].TileObjects) + 1
    /\ \E p \in DOMAIN Result : Result[p] # << >> /\ Result[p][Len(Result[p])].px[1] = "tree.png"


\* C12: when the image of the non-nil tile at array index k cannot be read
\* during RenderLayer, the call returns the I/O error at once, with no second
\* attempt at the file: exactly the non-nil tiles before k are drawn onto the
\* canvas as it was, and nothing is undone; and a call
\* that returns no error has left no tile unloaded.
C12_UnreadableImageStopsTheLayer ==
    [][ Returned("RenderLayer") =>
        LET tiles == m.Layers[ret'.index + 1].Tiles
        IN  /\ ret'.err = ErrIO =>
                 /\ \E j \in 1 .. Len(tiles) :
                       /\ FailedTile(tiles, j)
                       /\ Len(ret'.draws) = TilesAmong(tiles, j - 1)
                 /\ Result' = Replay(Result, ret'.draws, 1)
                 /\ \A f \in ret'.bad : Get(decoded', f, 0) = Get(decoded, f, 0)
            /\ ret'.err = NoError =>
                 \A j \in 1 .. Len(tiles) : ~FailedTile(tiles, j) ]_vars

\* ground and water drawn, then the door's file could not be read
C12_Witness ==
    /\ ret.op = "RenderLayer" /\ ret.err = ErrIO /\ ret.index = 0
    /\ ret.bad = {"door.png"}
    /\ Len(ret.draws) = 2
    /\ ~m.Layers[1].Tiles[4].Nil
    /\ Result[<<0, 0>>] # << >> /\ Result[<<2, 0>>] # << >>
    /\ Result[<<0, 2>>] = << >> /\ Result[<<2, 2>>] = << >>


\* the pixels of the map's final image: Width x Height tiles of TileWidth x TileHeight
MapPixels ==
    (0 .. m.Width * m.TileWidth - 1) \X (0 .. m.Height * m.TileHeight - 1)

\* a canvas of the map's final size with nothing drawn on any pixel
Blank(canvas) ==
    /\ DOMAIN canvas = MapPixels
    /\ \A p \in DOMAIN canvas : canvas[p] = << >>

\* C13: Clear, after any calls, leaves a newly allocated blank canvas of the
\* final image size the canvas had since construction, and changes nothing
\* else: the tile cache, the engine and the map are as before.
C13_ClearBlanksOnlyTheCanvas ==
    [][ calls' = calls + 1 /\ ret'.op = "Clear" =>
        /\ Blank(Result')
        /\ DOMAIN Result' = DOMAIN Result
        /\ allocated' = allocated + 1
        /\ tileCache' = tileCache
        /\ engine' = engine
        /\ m' = m /\ r' = r ]_vars

\* Clear after a render call that drew tiles and filled the cache
C13_Witness ==
    /\ ret.op = "Clear" /\ calls = 2
    /\ Blank(Result)
    /\ Cardinality(DOMAIN tileCache) >= 3
    /\ allocated = 2


\* opacity x 255 to the nearest integer, the opacity in hundredths: 128 for 0.5
NearestMaskValue(opacity) == (opacity * 255 + 50) \div 100

\* C14: every tile of a layer is composited through a uniform mask of value
\* opacity x 255, which is 128 for opacity 0.5; at opacity 1.0 the draw is
\* the one a mask of value 255 gives.
C14_OpacityGivesTheMaskValue ==
    ret.op = "RenderLayer" =>
        \A k \in 1 .. Len(ret.draws) :
           LET opacity == m.Layers[ret.index + 1].Opacity
           IN  /\ ret.draws[k].alpha = NearestMaskValue(opacity)
               /\ opacity = 50 => ret.draws[k].alpha = 128
               /\ opacity = 100 => ret.draws[k].alpha = 255


\* the global tile id frame n (counted from 1) of the animated tile t refers to
FrameGID(t, n) == m.Tilesets[t.Tileset].FirstGID + t.Animation[n].TileID

\* the cached images of the frames after the first of tile t that have one,
\* in sequence order; a frame without an image is left out
RECURSIVE FrameImages(_, _, _)
FrameImages(cache, t, n) ==
    IF n < 2 THEN << >>
    ELSE FrameImages(cache, t, n - 1)
         \o (IF FrameGID(t, n) \in DOMAIN cache
             THEN << RotateTileImage(NilTile, cache[FrameGID(t, n)]) >>
             ELSE << >>)

\* C15: in a RenderLayer call that returns no error, every non-nil tile with
\* animation frames has exactly one animation record, in tile order, placed
\* where the tile is placed, whose images are the tile's own image and then,
\* in sequence order, the images of the later frames that have one; a frame
\* whose image cannot be had is left out of the list, and the call fails
\* only when a tile of the layer itself could not be loaded.
C15_OneRecordPerAnimatedTile ==
    [][ Returned("RenderLayer") =>
        LET tiles == m.Layers[ret'.index + 1].Tiles
            idx   == IndicesWhere(tiles, IsTile)
            Animated(i) == Len(tiles[i + 1].Animation) > 0
            anim  == SelectSeq(idx, Animated)
        IN  /\ ret'.err = NoError =>
                 /\ Len(ret'.lo.Animation) = Len(anim)
                 /\ \A k \in 1 .. Len(anim) :
                       LET t   == tiles[anim[k] + 1]
                           rec == ret'.lo.Animation[k]
                           obj == ret'.lo.TileObjects[
                                      CHOOSE n \in 1 .. Len(idx) : idx[n] = anim[k]]
                       IN  /\ rec.TilePos = obj.TilePos
                           /\ rec.TileImages =
                                 << obj.TileImage >>
                                 \o FrameImages(tileCache', t, Len(t.Animation))
                           /\ \A n \in 1 .. Len(rec.TileImages) :
                                 ~rec.TileImages[n].nil
            /\ ret'.err = ErrIO =>
                 \E j \in 1 .. Len(tiles) : FailedTile(tiles, j) ]_vars


\* pixel p lies in the part of the draw d that holds image pixels
Covers(d, p) ==
    /\ p[1] >= d.pos.Min.X /\ p[1] < d.pos.Min.X + Min2(Dx(d.pos), Dx(Bounds(d.img)))
    /\ p[2] >= d.pos.Min.Y /\ p[2] < d.pos.Min.Y + Min2(Dy(d.pos), Dy(Bounds(d.img)))

\* C16: RenderLayer and RenderVisibleLayers allocate no canvas and draw on
\* the one there is: after the call the canvas is the canvas before it with
\* the call's draws composited on it in order, a pixel no draw covers is as
\* it was, and a pixel that held something still holds something; a blank
\* canvas comes only from construction and from Clear.
C16_CanvasPersistsAcrossCalls ==
    [][ /\ (Returned("RenderLayer") \/ Returned("RenderVisibleLayers")) =>
            /\ allocated' = allocated
            /\ DOMAIN Result' = DOMAIN Result
            /\ Result' = Replay(Result, ret'.draws, 1)
            /\ \A p \in DOMAIN Result :
                  /\ (\A k \in 1 .. Len(ret'.draws) : ~Covers(ret'.draws[k], p))
                        => Result'[p] = Result[p]
                  /\ Result[p] # << >> => Result'[p] # << >>
        /\ (~Blank(Result) /\ Blank(Result')) => ret'.op \in {"Clear", "NewRenderer"} ]_vars

\* the visible layers composited a second time on the canvas of the first
\* pass: a pixel holds the translucent tree of the second layer twice
C16_Witness ==
    /\ ret.op = "RenderVisibleLayers" /\ ret.err = NoError /\ calls = 2
    /\ 1 \in Range(ret.rendered)
    /\ \E p \in DOMAIN Result :
          /\ Len(Result[p]) = 2
          /\ Result[p][1] = Result[p][2]
          /\ Result[p][1].a = 127


\* the non-nil tiles the map's layers hold
LayerTiles ==
    {t \in UNION {Range(m.Layers[l].Tiles) : l \in 1 .. Len(m.Layers)} : ~t.Nil}

\* C17: with the cache in any state the renderer reaches, getTileImage for a
\* non-nil layer tile that returns no error has the tile's image in the
\* cache under FirstGID + ID, not nil, and hands that image, oriented, back.
C17_SuccessHasACachedImage ==
    r = "renderer" =>
        \A t \in LayerTiles, bad \in Unreadable :
           LET g   == getTileImage(Cache, t, bad)
               gid == m.Tilesets[t.Tileset].FirstGID + t.ID
           IN  g.err = NoError =>
                  /\ gid \in DOMAIN g.c.tileCache
                  /\ ~g.c.tileCache[gid].nil
                  /\ ~g.img.nil
                  /\ g.img = RotateTileImage(t, g.c.tileCache[gid])


\* C18: the LayerObjects RenderVisibleLayers returns, with or without an
\* error, has empty TileObjects and Animation lists and non-nil collision
\* maps, whatever the RenderLayer calls it made have returned.
C18_VisibleLayersReturnMapsOnly ==
    ret.op = "RenderVisibleLayers" /\ ret.err # Panic =>
        /\ ret.lo.TileObjects = << >>
        /\ ret.lo.Animation = << >>
        /\ ~ret.lo.nilMaps

\* two layers rendered, both with tile objects and one with an animation
\* record, and collision points merged
C18_Witness ==
    /\ ret.op = "RenderVisibleLayers" /\ ret.err = NoError
    /\ Len(ret.layers) = 2
    /\ \A k \in 1 .. 2 : ret.layers[k].TileObjects # << >>
    /\ \E k \in 1 .. 2 : ret.layers[k].Animation # << >>
    /\ ret.lo.TileObjects = << >> /\ ret.lo.Animation = << >>
    /\ DOMAIN ret.lo.XCollision # {}


\* C19: the LayerObjects of a RenderLayer call that returns an error has nil
\* XCollision and YCollision, whatever points the tiles before the failing
\* one added; its TileObjects are those of the tiles drawn before the
\* failing one, in order, and its Animation holds the records of the
\* animated ones among them; both are empty for the render-order error.
C19_ErrorReturnHasNoCollisionMaps ==
    [][ Returned("RenderLayer") /\ ret'.err # NoError =>
        LET tiles == m.Layers[ret'.index + 1].Tiles
            idx   == IndicesWhere(tiles, IsTile)
            done  == SubSeq(idx, 1, Len(ret'.draws))
            Animated(i) == Len(tiles[i + 1].Animation) > 0
        IN  /\ ret'.lo.nilMaps
            /\ ret'.lo.XCollision = << >> /\ ret'.lo.YCollision = << >>
            /\ Len(ret'.draws) <= Len(idx)
            /\ Len(ret'.lo.TileObjects) = Len(ret'.draws)
            /\ \A k \in 1 .. Len(ret'.draws) :
                  ret'.lo.TileObjects[k] =
                     [TileImage |-> ret'.draws[k].img, TilePos |-> ret'.draws[k].pos]
            /\ Len(ret'.lo.Animation) = Len(SelectSeq(done, Animated))
            /\ ret'.err = ErrUnsupportedRenderOrder =>
                  ret'.lo.TileObjects = << >> /\ ret'.lo.Animation = << >>
            /\ ret'.err = ErrIO =>
                  \E j \in 1 .. Len(tiles) :
                     /\ FailedTile(tiles, j)
                     /\ Len(ret'.lo.TileObjects) = TilesAmong(tiles, j - 1) ]_vars

\* the ground with its collision box and the animated water were processed,
\* then the door's file could not be read
C19_Witness ==
    /\ ret.op = "RenderLayer" /\ ret.err = ErrIO /\ ret.index = 0
    /\ ret.bad = {"door.png"}
    /\ m.Layers[1].Tiles[1].Collision # << >>
    /\ Len(ret.lo.TileObjects) = 2
    /\ Len(ret.lo.Animation) = 1
    /\ ret.lo.nilMaps /\ ret.lo.XCollision = << >>

====
